---- MODULE Spec2Model ----
(***************************************************************************)
(* A model of js/app.js, the controller of the Dental Kids App: the        *)
(* progress store (loadProgress / saveProgress over one localStorage       *)
(* slot), the badge engine (awardBadge), the sound toggle, the section     *)
(* navigation with its 200 ms reveal timers, and the procedure modal.      *)
(* The tones (playTone and its callers) and the card and progress-ring     *)
(* animations write no field of the controller, no element's class and     *)
(* nothing to the slot: they are output only and have no state here.       *)
(***************************************************************************)
EXTENDS Integers, Sequences, FiniteSets, TLC

(***************************************************************************)
(* Bounds of the model.                                                    *)
(***************************************************************************)
\* reveal timers (navigateToSection's setTimeout) that may be pending at once
MaxPendingReveals == 2

\* distinct badge ids that awardBadge is called with
NumBadgeIds == 2

(***************************************************************************)
(* Enumerations of the program and the inputs the handlers are tried on.   *)
(***************************************************************************)
\* the four content sections (the list in showHelpModal; data-section ids)
Sections == {"home", "procedures", "progress", "tips"}

\* section names handed to navigateToSection: the known ones and an unknown one
SectionInputs == Sections \cup {"settings"}

\* the keys of the procedures table in getProcedureData
ProcedureIds == {"cleaning", "xray", "filling", "checkup"}

\* procedure types handed to startProcedure / nextProcedureStep
ProcedureInputs == ProcedureIds \cup {"braces"}

\* the steps of the Show-Tell-Do flow (showHelpModal's list)
Steps == {"show", "tell", "do"}

\* step names handed to nextProcedureStep
StepInputs == Steps \cup {"done"}

\* arguments handed to awardBadge
BadgeIdTable ==
    <<"completed-cleaning", "brave-visitor", "completed-xray", "completed-filling",
      "completed-checkup">>
BadgeIds   == {BadgeIdTable[i] : i \in 1..NumBadgeIds}
BadgeNames == {"Cleaning Champion", "Brave Visitor"}
BadgeIcons == {"trophy"}
\* the name a caller passes along with an id
BadgeNameOf(id) == IF id = "brave-visitor" THEN "Brave Visitor" ELSE "Cleaning Champion"
\* values of new Date().toISOString() at the moment of an award
IsoTimes   == {"2024-05-01T09:00:00.000Z", "2024-05-02T09:00:00.000Z"}
\* the day of the visit under way: stored badges are older, new ones carry it
VisitDay   == "2024-05-02T09:00:00.000Z"

(***************************************************************************)
(* Sequence helpers.                                                       *)
(***************************************************************************)
\* a slip in the lookup: the badge's name is compared with the id
HasBadgeByName(badges, badgeId) == \E i \in 1..Len(badges) : badges[i].name = badgeId

\* Array.prototype.find(b => b.id === badgeId) !== undefined
HasBadge(badges, badgeId) == \E i \in 1..Len(badges) : badges[i].id = badgeId

\* the number of badges of a list that carry the id
CountId(badges, badgeId) == Cardinality({i \in 1..Len(badges) : badges[i].id = badgeId})

(***************************************************************************)
(* The progress record and its serialisation.  A JSON text is modelled as  *)
(* its sequence of tokens: punctuation, keys, literals, and for every      *)
(* string value a quote token followed by the characters of the string.    *)
(***************************************************************************)
\* the record loadProgress returns when nothing is stored
DefaultProgress ==
    [completedProcedures |-> <<>>, badges |-> <<>>,
     soundEnabled |-> TRUE, visitCount |-> 0]

Quote == "QUOTE"

Digits == <<"0", "1", "2", "3", "4", "5", "6", "7", "8", "9">>

BoolText(b) == IF b THEN "true" ELSE "false"

NumText(n) == Digits[n + 1]

RECURSIVE StringsText(_)
StringsText(strs) ==
    IF strs = <<>> THEN <<>>
    ELSE <<Quote, Head(strs)>> \o StringsText(Tail(strs))

BadgeText(b) ==
    <<"{", "id", Quote, b.id, "name", Quote, b.name, "icon", Quote, b.icon,
      "earnedAt", Quote, b.earnedAt, "}">>

\* a slip in the serialiser: the badges are written last to first
RECURSIVE BadgesTextReversed(_)
BadgesTextReversed(badges) ==
    IF badges = <<>> THEN <<>>
    ELSE BadgesTextReversed(Tail(badges)) \o BadgeText(Head(badges))

RECURSIVE BadgesText(_)
BadgesText(badges) ==
    IF badges = <<>> THEN <<>>
    ELSE BadgeText(Head(badges)) \o BadgesText(Tail(badges))

\* JSON.stringify of a progress record: the keys in insertion order
JSONstringify(r) ==
    <<"{", "completedProcedures", "[">> \o StringsText(r.completedProcedures)
    \o <<"]", "badges", "[">> \o BadgesText(r.badges)
    \o <<"]", "soundEnabled", BoolText(r.soundEnabled),
         "visitCount", NumText(r.visitCount), "}">>

\* the result of a parse step that failed (JSON.parse throws SyntaxError)
ParseError == [ok |-> FALSE]

\* an array of strings from token i on, up to its closing bracket
RECURSIVE ParseStrings(_, _, _)
ParseStrings(t, i, acc) ==
    IF i > Len(t) THEN ParseError
    ELSE IF t[i] = "]" THEN [ok |-> TRUE, value |-> acc, next |-> i + 1]
    ELSE IF t[i] = Quote /\ i + 1 <= Len(t)
         THEN ParseStrings(t, i + 2, Append(acc, t[i + 1]))
    ELSE ParseError

\* one badge object starting at token i
ParseBadge(t, i) ==
    IF /\ i + 13 <= Len(t)
       /\ t[i] = "{"
       /\ t[i + 1] = "id"        /\ t[i + 2] = Quote
       /\ t[i + 4] = "name"      /\ t[i + 5] = Quote
       /\ t[i + 7] = "icon"      /\ t[i + 8] = Quote
       /\ t[i + 10] = "earnedAt" /\ t[i + 11] = Quote
       /\ t[i + 13] = "}"
    THEN [ok |-> TRUE,
          value |-> [id |-> t[i + 3], name |-> t[i + 6], icon |-> t[i + 9],
                     earnedAt |-> t[i + 12]],
          next |-> i + 14]
    ELSE ParseError

\* an array of badge objects from token i on, up to its closing bracket
RECURSIVE ParseBadges(_, _, _)
ParseBadges(t, i, acc) ==
    IF i > Len(t) THEN ParseError
    ELSE IF t[i] = "]" THEN [ok |-> TRUE, value |-> acc, next |-> i + 1]
    ELSE LET b == ParseBadge(t, i)
         IN  IF b.ok THEN ParseBadges(t, b.next, Append(acc, b.value))
             ELSE ParseError

ParseBool(tok) ==
    IF tok = "true" THEN [ok |-> TRUE, value |-> TRUE]
    ELSE IF tok = "false" THEN [ok |-> TRUE, value |-> FALSE]
    ELSE ParseError

ParseNum(tok) ==
    IF \E n \in 0..9 : Digits[n + 1] = tok
    THEN [ok |-> TRUE, value |-> CHOOSE n \in 0..9 : Digits[n + 1] = tok]
    ELSE ParseError

\* JSON.parse of the text of a progress record: [ok |-> TRUE, value |-> r],
\* or ParseError where JSON.parse throws
JSONparse(t) ==
    IF ~(Len(t) >= 3 /\ t[1] = "{" /\ t[2] = "completedProcedures" /\ t[3] = "[")
    THEN ParseError
    ELSE
    LET cp == ParseStrings(t, 4, <<>>) IN
    IF ~cp.ok THEN ParseError
    ELSE IF ~(cp.next + 1 <= Len(t) /\ t[cp.next] = "badges" /\ t[cp.next + 1] = "[")
    THEN ParseError
    ELSE
    LET bs == ParseBadges(t, cp.next + 2, <<>>) IN
    IF ~bs.ok THEN ParseError
    ELSE IF ~(/\ Len(t) = bs.next + 4
              /\ t[bs.next] = "soundEnabled"
              /\ t[bs.next + 2] = "visitCount"
              /\ t[bs.next + 4] = "}")
    THEN ParseError
    ELSE
    LET se == ParseBool(t[bs.next + 1])
        vc == ParseNum(t[bs.next + 3])
    IN  IF se.ok /\ vc.ok
        THEN [ok |-> TRUE,
              value |-> [completedProcedures |-> cp.value, badges |-> bs.value,
                         soundEnabled |-> se.value, visitCount |-> vc.value]]
        ELSE ParseError

(***************************************************************************)
(* The localStorage slot 'dentalKidsProgress'.                             *)
(***************************************************************************)
\* getItem returns null: nothing was ever stored
Absent == [present |-> FALSE, text |-> <<>>]

Stored(text) == [present |-> TRUE, text |-> text]

\* records a previous session may have left in the slot
VisitedProgress ==
    [completedProcedures |-> <<"cleaning", "xray">>,
     badges |-> <<[id |-> "brave-visitor", name |-> "Brave Visitor",
                   icon |-> "trophy", earnedAt |-> "2024-05-01T09:00:00.000Z"]>>,
     soundEnabled |-> FALSE, visitCount |-> 3]

FinishedProgress ==
    [completedProcedures |-> <<"cleaning", "xray", "filling", "checkup">>,
     badges |-> <<>>, soundEnabled |-> TRUE, visitCount |-> 7]

\* a stored text cut short (a write that was interrupted, a hand edit)
CorruptText == SubSeq(JSONstringify(VisitedProgress), 1, 6)

\* the contents of the slot when the page is first opened
PersistedInputs ==
    {Absent, Stored(<<>>), Stored(CorruptText),
     Stored(JSONstringify(VisitedProgress)),
     Stored(JSONstringify(FinishedProgress))}

(***************************************************************************)
(* The procedure modal's contents.                                         *)
(***************************************************************************)
\* #procedure-content as the page's markup leaves it, before any handler ran
NoContent == [procedure |-> "none", step |-> "none", next |-> "none"]

NoTitle == "none"

\* the titles of the procedures table (getProcedureData)
ProcedureTitle(p) ==
    CASE p = "cleaning" -> "Tooth Cleaning Adventure"
      [] p = "xray"     -> "X-Ray Superhero Vision"
      [] p = "filling"  -> "Cavity Filling Hero Mission"
      [] p = "checkup"  -> "Dental Treasure Hunt"

\* procedures[p].content: "Step 1 of 3: SHOW" and a button whose onclick is
\* app.nextProcedureStep(p, 'tell')
ProcedureEntry(p) ==
    [title |-> ProcedureTitle(p),
     content |-> [procedure |-> p, step |-> "show", next |-> "tell"]]

\* return procedures[procedureType] || procedures.cleaning
getProcedureData(procedureType) ==
    IF procedureType \in ProcedureIds THEN ProcedureEntry(procedureType)
    ELSE ProcedureEntry("cleaning")

\* `<div class="step-content">Step ${step} content for ${procedureType}</div>`:
\* the step and the procedure as given, and no button
getProcedureStepContent(procedureType, step) ==
    [procedure |-> procedureType, step |-> step, next |-> "none"]

HelpTitle == "Help & Instructions"

\* the help text, with a button whose onclick is app.closeModal()
HelpContent == [procedure |-> "none", step |-> "help", next |-> "none"]

(***************************************************************************)
(* The progress section's display.                                         *)
(***************************************************************************)
\* const totalProcedures = 4
totalProcedures == 4

\* Math.round(num / den) for num >= 0: the nearest integer, halves upwards
MathRound(num, den) == (2 * num + den) \div (2 * den)

\* a slip in the total: the unknown procedure of the inputs is counted too
calculateCompletionRateOfInputs(progress) ==
    MathRound(Len(progress.completedProcedures) * 100, Cardinality(ProcedureInputs))

\* Math.round((completed / totalProcedures) * 100)
calculateCompletionRate(progress) ==
    MathRound(Len(progress.completedProcedures) * 100, totalProcedures)

\* the .badge-item elements animateBadges appends for a list of badges
BadgeItems(badges) ==
    [i \in 1..Len(badges) |-> [icon |-> badges[i].icon, name |-> badges[i].name]]

\* a slip in animateBadges: #badges-container is not cleared first
animateBadgesUncleared(items, badges) == items \o BadgeItems(badges)

\* animateBadges: the children of #badges-container, which held items before
animateBadges(items, badges) == BadgeItems(badges)

\* the progress section as the page's markup leaves it: nothing was rendered
NoProgressView ==
    [rendered |-> FALSE, percent |-> 0, completed |-> 0, badgeCount |-> 0,
     badges |-> <<>>]

\* animateProgressCircle and animateBadges: the value the ring and the
\* percentage count up to, #procedures-completed, #badges-earned, and the
\* badge items
ProgressRendered(view, progress) ==
    [rendered   |-> TRUE,
     percent    |-> calculateCompletionRate(progress),
     completed  |-> Len(progress.completedProcedures),
     badgeCount |-> Len(progress.badges),
     badges     |-> animateBadges(view.badges, progress.badges)]

\* triggerSectionAnimations: only the progress section displays data (the
\* cards of procedures and tips are restyled, home has no case)
triggerSectionAnimations(view, sectionName, progress) ==
    IF sectionName = "progress" THEN ProgressRendered(view, progress) ELSE view

(***************************************************************************)
(* Sound.  A tone is started by playTone, which looks at soundEnabled when *)
(* it is called; the Web Audio API is taken to be available.               *)
(***************************************************************************)
ClickTone == 800
HoverTone == 600
\* C, E, G: set 100, 300 and 500 ms after playWelcomeSound
WelcomeMelody == <<523, 659, 784>>

\* a slip in playTone: the first line, the return when sound is off, is missing
playToneUngated(frequency, enabled) == <<frequency>>

playTone(frequency, enabled) == IF ~enabled THEN <<>> ELSE <<frequency>>

playClickSound(enabled) == IF enabled THEN playTone(ClickTone, enabled) ELSE <<>>

playHoverSound(enabled) == IF enabled THEN playTone(HoverTone, enabled) ELSE <<>>

\* the three timers of a melody are set together or not at all
playWelcomeSound(timers, enabled) == IF enabled THEN Append(timers, 1) ELSE timers

\* init, run by the constructor unless loadProgress threw before
init(app) ==
    IF app.appState = "running" THEN playWelcomeSound(<<>>, app.soundEnabled) ELSE <<>>

(***************************************************************************)
(* The state.                                                              *)
(***************************************************************************)
VARIABLES
    slot,            \* localStorage['dentalKidsProgress']
    appState,        \* "running", or "crashed": the constructor threw
    currentSection,  \* this.currentSection
    soundEnabled,    \* this.soundEnabled
    userProgress,    \* this.userProgress
    activeButton,    \* the .nav-btn carrying class active ("none": no button)
    activeSections,  \* the .content-section elements carrying class active
    revealTimers,    \* navigateToSection's pending 200 ms timers, oldest first
    progressView,    \* what the progress section displays (ring target, counts, badges)
    modalShown,      \* #procedure-modal carries class show
    modalTitle,      \* #modal-title
    modalContent,    \* #procedure-content
    notifications,   \* the .badge-notification elements of the page, oldest first
    toneTimers,      \* playWelcomeSound's pending melodies, oldest first: the note due next
    emitted,         \* the tones the last handler or callback started (<<>>: none)
    lastCall         \* the handler or timer callback that ran last, with its arguments

vars == <<slot, appState, currentSection, soundEnabled, userProgress,
          activeButton, activeSections, revealTimers, progressView, modalShown,
          modalTitle, modalContent, notifications, toneTimers, emitted, lastCall>>

storeVars == <<slot, soundEnabled, userProgress>>
navVars   == <<currentSection, activeButton, activeSections, revealTimers,
               progressView>>
modalVars == <<modalShown, modalTitle, modalContent>>

Call(op, a1, a2) == [op |-> op, arg1 |-> a1, arg2 |-> a2]

(***************************************************************************)
(* The progress store.                                                     *)
(***************************************************************************)
\* a slip in the fallback: a first visit is already counted
loadProgressCounted(s) ==
    IF s.present /\ s.text # <<>>
    THEN LET parsed == JSONparse(s.text)
         IN  IF parsed.ok THEN [threw |-> FALSE, value |-> parsed.value]
             ELSE [threw |-> TRUE]
    ELSE [threw |-> FALSE, value |-> [DefaultProgress EXCEPT !.visitCount = 1]]

\* loadProgress: [threw |-> TRUE] where JSON.parse throws, else the record.
\* An empty string is falsy, like null.
loadProgress(s) ==
    IF s.present /\ s.text # <<>>
    THEN LET parsed == JSONparse(s.text)
         IN  IF parsed.ok THEN [threw |-> FALSE, value |-> parsed.value]
             ELSE [threw |-> TRUE]
    ELSE [threw |-> FALSE, value |-> DefaultProgress]

\* saveProgress: the record it leaves in this.userProgress ...
SavedRecord(progress, sound) == [progress EXCEPT !.soundEnabled = sound]

\* ... and the value it leaves in the slot
saveProgress(progress, sound) == Stored(JSONstringify(SavedRecord(progress, sound)))

(***************************************************************************)
(* Construction: const app = new DentalKidsApp() on a freshly loaded page. *)
(* The page's markup shows the home section and no modal.  When            *)
(* loadProgress throws, the constructor throws, init never runs and the    *)
(* script ends: no handler is registered and `app` is never bound.         *)
(***************************************************************************)
constructor(s) ==
    LET loaded == loadProgress(s)
    IN  [appState       |-> IF loaded.threw THEN "crashed" ELSE "running",
         currentSection |-> "home",
         soundEnabled   |-> TRUE,
         userProgress   |-> IF loaded.threw THEN DefaultProgress ELSE loaded.value]

PageLoaded(s) ==
    LET app == constructor(s)
    IN  /\ appState = app.appState
        /\ currentSection = app.currentSection
        /\ soundEnabled = app.soundEnabled
        /\ userProgress = app.userProgress
        /\ activeButton = "home"
        /\ activeSections = {"home"}
        /\ revealTimers = <<>>
        /\ progressView = NoProgressView
        /\ modalShown = FALSE
        /\ modalTitle = NoTitle
        /\ modalContent = NoContent
        /\ notifications = <<>>
        /\ toneTimers = init(app)
        /\ emitted = <<>>
        /\ lastCall = Call("constructor", "none", "none")

Init == \E s \in PersistedInputs : slot = s /\ PageLoaded(s)

\* the user reloads the page: the document and its timers are discarded, the
\* slot is kept, and the script runs again
Reload ==
    LET app == constructor(slot)
    IN  /\ appState' = app.appState
        /\ currentSection' = app.currentSection
        /\ soundEnabled' = app.soundEnabled
        /\ userProgress' = app.userProgress
        /\ activeButton' = "home"
        /\ activeSections' = {"home"}
        /\ revealTimers' = <<>>
        /\ progressView' = NoProgressView
        /\ modalShown' = FALSE
        /\ modalTitle' = NoTitle
        /\ modalContent' = NoContent
        /\ notifications' = <<>>
        /\ toneTimers' = init(app)
        /\ emitted' = <<>>
        /\ lastCall' = Call("constructor", "none", "none")
        /\ UNCHANGED slot

(***************************************************************************)
(* The sound toggle (the click listener of setupSoundToggle).              *)
(***************************************************************************)
\* a slip in the listener: the new value is not saved
toggleSoundUnsaved ==
    /\ appState = "running"
    /\ soundEnabled' = ~soundEnabled
    /\ lastCall' = Call("toggleSound", "none", "none")
    /\ emitted' = <<>>
    /\ UNCHANGED toneTimers
    /\ UNCHANGED <<userProgress, slot, appState, navVars, modalVars, notifications>>

toggleSound ==
    /\ appState = "running"
    /\ soundEnabled' = ~soundEnabled
    /\ userProgress' = SavedRecord(userProgress, soundEnabled')
    /\ slot' = saveProgress(userProgress, soundEnabled')
    /\ lastCall' = Call("toggleSound", "none", "none")
    /\ emitted' = <<>>
    /\ UNCHANGED toneTimers
    /\ UNCHANGED <<appState, navVars, modalVars, notifications>>

(***************************************************************************)
(* The badge engine.                                                       *)
(***************************************************************************)
NewBadge(badgeId, badgeName, badgeIcon, now) ==
    [id |-> badgeId, name |-> badgeName, icon |-> badgeIcon, earnedAt |-> now]

\* showBadgeNotification: a new element appended to the body, not yet shown
NewNotification(badgeName, badgeIcon) ==
    [name |-> badgeName, icon |-> badgeIcon, phase |-> "appended"]

\* a slip in awardBadge: the notification is shown outside the if
awardBadgeNotifyAlways(badgeId, badgeName, badgeIcon, now) ==
    /\ appState = "running"
    /\ IF ~HasBadge(userProgress.badges, badgeId)
       THEN LET pushed == [userProgress EXCEPT !.badges =
                              Append(@, NewBadge(badgeId, badgeName, badgeIcon, now))]
            IN  /\ userProgress' = SavedRecord(pushed, soundEnabled)
                /\ slot' = saveProgress(pushed, soundEnabled)
       ELSE UNCHANGED <<userProgress, slot>>
    /\ notifications' = Append(notifications, NewNotification(badgeName, badgeIcon))
    /\ lastCall' = Call("awardBadge", badgeId, now)
    /\ toneTimers' = playWelcomeSound(toneTimers, soundEnabled)
    /\ emitted' = <<>>
    /\ UNCHANGED <<appState, soundEnabled, navVars, modalVars>>

awardBadge(badgeId, badgeName, badgeIcon, now) ==
    /\ appState = "running"
    /\ IF ~HasBadge(userProgress.badges, badgeId)
       THEN LET pushed == [userProgress EXCEPT !.badges =
                              Append(@, NewBadge(badgeId, badgeName, badgeIcon, now))]
            IN  /\ userProgress' = SavedRecord(pushed, soundEnabled)
                /\ slot' = saveProgress(pushed, soundEnabled)
                /\ notifications' =
                       Append(notifications, NewNotification(badgeName, badgeIcon))
       ELSE UNCHANGED <<userProgress, slot, notifications>>
    /\ lastCall' = Call("awardBadge", badgeId, now)
    /\ toneTimers' = IF ~HasBadge(userProgress.badges, badgeId)
                     THEN playWelcomeSound(toneTimers, soundEnabled)
                     ELSE toneTimers
    /\ emitted' = <<>>
    /\ UNCHANGED <<appState, soundEnabled, navVars, modalVars>>

\* the timers of showBadgeNotification: 100 ms (show), 3000 ms (hide) and
\* 500 ms after that (remove), in this order for each notification
NextPhase(phase) == IF phase = "appended" THEN "shown" ELSE "hiding"

PhaseRank(phase) ==
    CASE phase = "appended" -> 0 [] phase = "shown" -> 1 [] phase = "hiding" -> 2

\* a slip in the last timer: every notification of the page is removed
notificationTimerClearsAll(i) ==
    /\ appState = "running"
    /\ i \in 1..Len(notifications)
    /\ \A k \in 1..(i - 1) :
           PhaseRank(notifications[k].phase) > PhaseRank(notifications[i].phase)
    /\ notifications' =
         IF notifications[i].phase = "hiding"
         THEN <<>>
         ELSE [notifications EXCEPT ![i].phase = NextPhase(notifications[i].phase)]
    /\ lastCall' = Call("notificationTimer", notifications[i].name, "none")
    /\ emitted' = <<>>
    /\ UNCHANGED toneTimers
    /\ UNCHANGED <<storeVars, appState, navVars, modalVars>>

\* timers of equal delay fire in the order they were set: a notification's
\* timer fires after the same timer of every older notification
notificationTimer(i) ==
    /\ appState = "running"
    /\ i \in 1..Len(notifications)
    /\ \A k \in 1..(i - 1) :
           PhaseRank(notifications[k].phase) > PhaseRank(notifications[i].phase)
    /\ notifications' =
         IF notifications[i].phase = "hiding"
         THEN SubSeq(notifications, 1, i - 1)
              \o SubSeq(notifications, i + 1, Len(notifications))
         ELSE [notifications EXCEPT ![i].phase = NextPhase(notifications[i].phase)]
    /\ lastCall' = Call("notificationTimer", notifications[i].name, "none")
    /\ emitted' = <<>>
    /\ UNCHANGED toneTimers
    /\ UNCHANGED <<storeVars, appState, navVars, modalVars>>

\* mouseenter on a procedure card
hoverCard ==
    /\ appState = "running"
    /\ emitted' = playHoverSound(soundEnabled)
    /\ lastCall' = Call("hoverCard", "none", "none")
    /\ UNCHANGED <<storeVars, appState, navVars, modalVars, notifications, toneTimers>>

\* a timer of playWelcomeSound fires: the note due next of melody i.  The
\* timers of one melody fire in their order, and a timer fires after the
\* timer of the same delay of every older melody.
welcomeTimer(i) ==
    /\ appState = "running"
    /\ i \in 1..Len(toneTimers)
    /\ \A k \in 1..(i - 1) : toneTimers[k] > toneTimers[i]
    /\ emitted' = playTone(WelcomeMelody[toneTimers[i]], soundEnabled)
    /\ toneTimers' =
         IF toneTimers[i] = Len(WelcomeMelody)
         THEN SubSeq(toneTimers, 1, i - 1) \o SubSeq(toneTimers, i + 1, Len(toneTimers))
         ELSE [toneTimers EXCEPT ![i] = @ + 1]
    /\ lastCall' = Call("welcomeTimer", "none", "none")
    /\ UNCHANGED <<storeVars, appState, navVars, modalVars, notifications>>

(***************************************************************************)
(* Navigation.                                                             *)
(***************************************************************************)
\* the button navigateToSection marks active: the one clicked, or the first
\* element matching [data-section="..."], if any
TargetButton(sectionName) ==
    IF sectionName \in Sections THEN sectionName ELSE "none"

\* a slip in navigateToSection: the modal is closed on the way
navigateToSectionClosesModal(sectionName) ==
    /\ appState = "running"
    /\ Len(revealTimers) < MaxPendingReveals
    /\ currentSection' = sectionName
    /\ activeButton' = TargetButton(sectionName)
    /\ activeSections' = {}
    /\ revealTimers' = Append(revealTimers, sectionName)
    /\ modalShown' = FALSE
    /\ lastCall' = Call("navigateToSection", sectionName, "none")
    /\ emitted' = playClickSound(soundEnabled)
    /\ UNCHANGED toneTimers
    /\ UNCHANGED <<storeVars, appState, progressView, modalTitle, modalContent,
                   notifications>>

\* a slip in navigateToSection: nothing is done when the target is the
\* section already current
navigateToSectionSuppressed(sectionName) ==
    /\ appState = "running"
    /\ Len(revealTimers) < MaxPendingReveals
    /\ IF sectionName = currentSection
       THEN UNCHANGED <<currentSection, activeButton, activeSections, revealTimers>>
       ELSE /\ currentSection' = sectionName
            /\ activeButton' = TargetButton(sectionName)
            /\ activeSections' = {}
            /\ revealTimers' = Append(revealTimers, sectionName)
    /\ lastCall' = Call("navigateToSection", sectionName, "none")
    /\ emitted' = playClickSound(soundEnabled)
    /\ UNCHANGED toneTimers
    /\ UNCHANGED <<storeVars, appState, progressView, modalVars, notifications>>

navigateToSection(sectionName) ==
    /\ appState = "running"
    /\ Len(revealTimers) < MaxPendingReveals
    /\ currentSection' = sectionName
    /\ activeButton' = TargetButton(sectionName)
    /\ activeSections' = {}
    /\ revealTimers' = Append(revealTimers, sectionName)
    /\ lastCall' = Call("navigateToSection", sectionName, "none")
    /\ emitted' = playClickSound(soundEnabled)
    /\ UNCHANGED toneTimers
    /\ UNCHANGED <<storeVars, appState, progressView, modalVars, notifications>>

\* the sections active after the 200 ms callback of a navigation to sectionName:
\* document.getElementById(`${sectionName}-section`) is null for an unknown name
SectionsAfterReveal(active, sectionName) ==
    IF sectionName \in Sections THEN active \cup {sectionName} ELSE active

revealTimer ==
    /\ appState = "running"
    /\ revealTimers # <<>>
    /\ activeSections' = SectionsAfterReveal(activeSections, Head(revealTimers))
    /\ revealTimers' = Tail(revealTimers)
    /\ progressView' =
         IF Head(revealTimers) \in Sections
         THEN triggerSectionAnimations(progressView, Head(revealTimers), userProgress)
         ELSE progressView
    /\ lastCall' = Call("revealTimer", Head(revealTimers), "none")
    /\ emitted' = <<>>
    /\ UNCHANGED toneTimers
    /\ UNCHANGED <<storeVars, appState, currentSection, activeButton, modalVars,
                   notifications>>

(***************************************************************************)
(* The procedure modal.                                                    *)
(***************************************************************************)
\* a slip in startProcedure: the procedure is recorded as completed, and the
\* record saved, as soon as its modal is opened
startProcedureCompletes(procedureType) ==
    /\ appState = "running"
    /\ modalTitle' = getProcedureData(procedureType).title
    /\ modalContent' = getProcedureData(procedureType).content
    /\ modalShown' = TRUE
    /\ LET pushed == [userProgress EXCEPT !.completedProcedures =
                         Append(@, procedureType)]
       IN  /\ userProgress' = SavedRecord(pushed, soundEnabled)
           /\ slot' = saveProgress(pushed, soundEnabled)
    /\ lastCall' = Call("startProcedure", procedureType, "none")
    /\ emitted' = playClickSound(soundEnabled)
    /\ UNCHANGED toneTimers
    /\ UNCHANGED <<appState, soundEnabled, navVars, notifications>>

\* startProcedure -> showProcedureModal
startProcedure(procedureType) ==
    /\ appState = "running"
    /\ modalTitle' = getProcedureData(procedureType).title
    /\ modalContent' = getProcedureData(procedureType).content
    /\ modalShown' = TRUE
    /\ lastCall' = Call("startProcedure", procedureType, "none")
    /\ emitted' = playClickSound(soundEnabled)
    /\ UNCHANGED toneTimers
    /\ UNCHANGED <<storeVars, appState, navVars, notifications>>

\* a slip in nextProcedureStep: the modal is shown along with the content
nextProcedureStepShows(procedureType, step) ==
    /\ appState = "running"
    /\ modalContent' = getProcedureStepContent(procedureType, step)
    /\ modalShown' = TRUE
    /\ lastCall' = Call("nextProcedureStep", procedureType, step)
    /\ emitted' = playClickSound(soundEnabled)
    /\ UNCHANGED toneTimers
    /\ UNCHANGED <<storeVars, appState, navVars, modalTitle, notifications>>

\* nextProcedureStep: only #procedure-content is written
nextProcedureStep(procedureType, step) ==
    /\ appState = "running"
    /\ modalContent' = getProcedureStepContent(procedureType, step)
    /\ lastCall' = Call("nextProcedureStep", procedureType, step)
    /\ emitted' = playClickSound(soundEnabled)
    /\ UNCHANGED toneTimers
    /\ UNCHANGED <<storeVars, appState, navVars, modalShown, modalTitle,
                   notifications>>

\* a click on the .next-step-btn of the content on display
clickNextStep ==
    /\ modalShown
    /\ modalContent.next # "none"
    /\ nextProcedureStep(modalContent.procedure, modalContent.next)

\* a slip in closeModal: the show class is toggled, not removed
closeModalToggles ==
    /\ appState = "running"
    /\ modalShown' = ~modalShown
    /\ lastCall' = Call("closeModal", IF modalShown THEN "open" ELSE "closed", "none")
    /\ emitted' = playClickSound(soundEnabled)
    /\ UNCHANGED toneTimers
    /\ UNCHANGED <<storeVars, appState, navVars, modalTitle, modalContent,
                   notifications>>

\* the close button, a click outside, Escape, the help text's button
closeModal ==
    /\ appState = "running"
    /\ modalShown' = FALSE
    /\ lastCall' = Call("closeModal", IF modalShown THEN "open" ELSE "closed", "none")
    /\ emitted' = playClickSound(soundEnabled)
    /\ UNCHANGED toneTimers
    /\ UNCHANGED <<storeVars, appState, navVars, modalTitle, modalContent,
                   notifications>>

showHelpModal ==
    /\ appState = "running"
    /\ modalTitle' = HelpTitle
    /\ modalContent' = HelpContent
    /\ modalShown' = TRUE
    /\ lastCall' = Call("showHelpModal", "none", "none")
    /\ emitted' = playClickSound(soundEnabled)
    /\ UNCHANGED toneTimers
    /\ UNCHANGED <<storeVars, appState, navVars, notifications>>

(***************************************************************************)
(* The system.  Next is the page as its controls drive it: the navigation  *)
(* buttons, the procedure cards, the buttons of the modal, the sound       *)
(* toggle and the reload.  The store, the modal and the navigation share   *)
(* no state (each handler leaves the other two parts UNCHANGED), so each   *)
(* part is also explored on its own, with every method of the controller   *)
(* called with known and unknown arguments, under its own specification.   *)
(***************************************************************************)
Next ==
    \/ Reload
    \/ toggleSound
    \/ \E s \in Sections : navigateToSection(s)
    \/ revealTimer
    \/ \E p \in ProcedureIds : startProcedure(p)
    \/ clickNextStep
    \/ closeModal
    \/ showHelpModal

Spec == Init /\ [][Next]_vars

NextStore ==
    \/ Reload
    \/ toggleSound
    \/ \E id \in BadgeIds, icon \in BadgeIcons, now \in IsoTimes :
           awardBadge(id, BadgeNameOf(id), icon, now)
    \/ \E i \in 1..Len(notifications) : notificationTimer(i)

SpecStore == Init /\ [][NextStore]_vars

NextModal ==
    \/ Reload
    \/ \E p \in ProcedureInputs : startProcedure(p)
    \/ \E p \in ProcedureInputs, step \in StepInputs : nextProcedureStep(p, step)
    \/ clickNextStep
    \/ closeModal
    \/ showHelpModal

SpecModal == Init /\ [][NextModal]_vars

NextNav ==
    \/ Reload
    \/ \E s \in SectionInputs : navigateToSection(s)
    \/ revealTimer

SpecNav == Init /\ [][NextNav]_vars

\* the progress page: badges are awarded, all on one day, between the visits
\* of the progress section and of one other section; the timers of the
\* notifications touch nothing the section shows and are part of NextStore
ProgressVisits == {"home", "progress"}

NextProgress ==
    \/ Reload
    \/ \E id \in BadgeIds, name \in BadgeNames, icon \in BadgeIcons :
           awardBadge(id, name, icon, VisitDay)
    \/ \E s \in ProgressVisits : navigateToSection(s)
    \/ revealTimer

SpecProgress == Init /\ [][NextProgress]_vars

\* the sound paths: the welcome melodies of the page load and of the awards,
\* the hover over a card and the clicks of the modal, with the toggle between
NextSound ==
    \/ Reload
    \/ toggleSound
    \/ \E id \in BadgeIds, name \in BadgeNames, icon \in BadgeIcons :
           awardBadge(id, name, icon, VisitDay)
    \/ \E i \in 1..Len(toneTimers) : welcomeTimer(i)
    \/ hoverCard
    \/ showHelpModal
    \/ closeModal

SpecSound == Init /\ [][NextSound]_vars

\* the notifications of the awards and their timers, with the toggle, the
\* navigation and the modal in use meanwhile.  A timer the browser has set
\* fires once its delay is over, unless the page is left before: the timers
\* of the notifications are weakly fair.
NextNotify ==
    \/ Reload
    \/ toggleSound
    \/ \E id \in BadgeIds, icon \in BadgeIcons :
           awardBadge(id, BadgeNameOf(id), icon, VisitDay)
    \/ \E i \in 1..Len(notifications) : notificationTimer(i)
    \/ navigateToSection("tips")
    \/ revealTimer
    \/ showHelpModal
    \/ closeModal

\* a first visit: nothing is stored
FirstVisit == slot = Absent /\ PageLoaded(Absent)

SpecNotify ==
    /\ FirstVisit
    /\ [][NextNotify]_vars
    /\ WF_vars(\E i \in 1..Len(notifications) : notificationTimer(i))

(***************************************************************************)
(* The states of the modal as the specification names them.                *)
(***************************************************************************)
Closed == ~modalShown

Open(p, step) ==
    modalShown /\ modalContent.procedure = p /\ modalContent.step = step

StepAfter(step) == IF step = "show" THEN "tell" ELSE "do"

\* the id of the badge that completing procedure p is to award
CompletedBadgeId(p) ==
    CASE p = "cleaning" -> "completed-cleaning"
      [] p = "xray"     -> "completed-xray"
      [] p = "filling"  -> "completed-filling"
      [] p = "checkup"  -> "completed-checkup"

\* the record a load of the slot returns, where it returns one
Persisted == loadProgress(slot).value

(***************************************************************************)
(* C1.  After any sequence of awardBadge calls, with any ids, repeated or  *)
(* not, no two badges of userProgress.badges share an id: an id that was   *)
(* awarded twice is carried by exactly one badge.                          *)
(***************************************************************************)
C1_NoDuplicateBadgeIds ==
    appState = "running" =>
        /\ \A i, j \in 1..Len(userProgress.badges) :
               userProgress.badges[i].id = userProgress.badges[j].id => i = j
        /\ lastCall.op = "awardBadge" =>
               CountId(userProgress.badges, lastCall.arg1) = 1

\* awardBadge ran at one time for an id whose badge was earned at another
\* time: the id was awarded a second time, from the default record
C1_Witness ==
    /\ appState = "running"
    /\ lastCall.op = "awardBadge"
    /\ userProgress.completedProcedures = <<>>
    /\ \E i \in 1..Len(userProgress.badges) :
           /\ userProgress.badges[i].id = lastCall.arg1
           /\ userProgress.badges[i].earnedAt # lastCall.arg2
    /\ CountId(userProgress.badges, lastCall.arg1) = 1

(***************************************************************************)
(* C2.  From Open(p, do), one more advance (a call of nextProcedureStep)   *)
(* closes the modal, and afterwards exactly one "completed p" badge is in  *)
(* the record.                                                             *)
(***************************************************************************)
C2_AdvancePastDoCompletes ==
    [][\A p \in ProcedureIds :
          (Open(p, "do") /\ lastCall'.op = "nextProcedureStep")
          => /\ ~modalShown'
             /\ CountId(userProgress'.badges, CompletedBadgeId(p)) = 1]_vars

(***************************************************************************)
(* C3.  startProcedure(p), for a known p and from Closed, yields           *)
(* Open(p, show); every advance from Open(p, show) or Open(p, tell) leads  *)
(* to the next step of the same p, the modal staying open; and the modal   *)
(* at Open(p, tell) offers the advance to do, so that two advances from    *)
(* Open(p, show) reach Open(p, do).                                        *)
(***************************************************************************)
C3_StepOrder ==
    [][\A p \in ProcedureIds :
          /\ (Closed /\ lastCall' = Call("startProcedure", p, "none"))
             => Open(p, "show")'
          /\ \A step \in {"show", "tell"} :
                (Open(p, step) /\ lastCall'.op = "nextProcedureStep")
                => Open(p, StepAfter(step))'
          /\ Open(p, "tell")' => modalContent'.next = "do"]_vars

(***************************************************************************)
(* C4.  A navigation to a section id outside {home, procedures, progress,  *)
(* tips} is rejected: currentSection keeps its value, so that it is a      *)
(* known section in every state, and the sections on display stay on       *)
(* display.                                                                *)
(***************************************************************************)
C4_UnknownSectionRejected ==
    [][/\ currentSection' \in Sections
       /\ (lastCall'.op = "navigateToSection" /\ lastCall'.arg1 \notin Sections)
          => /\ currentSection' = currentSection
             /\ activeSections' = activeSections]_vars

(***************************************************************************)
(* C5.  startProcedure with an id outside {cleaning, xray, filling,        *)
(* checkup} is rejected: a modal that was Closed stays Closed, and its     *)
(* title and content are not replaced by those of another procedure.       *)
(***************************************************************************)
C5_UnknownProcedureRejected ==
    [][(Closed /\ lastCall'.op = "startProcedure"
               /\ lastCall'.arg1 \notin ProcedureIds)
       => /\ Closed'
          /\ modalTitle' = modalTitle
          /\ modalContent' = modalContent]_vars

(***************************************************************************)
(* C6.  When the value in the slot fails to parse, the controller starts   *)
(* normally, with the default record.                                      *)
(***************************************************************************)
C6_CorruptSlotLoadsDefault ==
    (/\ lastCall.op = "constructor"
     /\ slot.present
     /\ slot.text # <<>>
     /\ ~JSONparse(slot.text).ok)
    => (appState = "running" /\ userProgress = DefaultProgress)

(***************************************************************************)
(* C7.  A load while the slot holds no value returns the default record,   *)
(* {completedProcedures: [], badges: [], soundEnabled: true,               *)
(* visitCount: 0}, and no load writes to the slot.                         *)
(***************************************************************************)
C7_AbsentLoadsDefault ==
    /\ [](lastCall.op = "constructor" /\ ~slot.present
            => /\ appState = "running"
               /\ userProgress = [completedProcedures |-> <<>>, badges |-> <<>>,
                                  soundEnabled |-> TRUE, visitCount |-> 0])
    /\ [][lastCall'.op = "constructor" => slot' = slot]_vars

\* the controller was constructed over a slot that holds no value: it runs
\* with the default record, and the slot still holds no value
C7_Witness ==
    /\ lastCall.op = "constructor"
    /\ slot = Absent
    /\ appState = "running"
    /\ userProgress = DefaultProgress

(***************************************************************************)
(* C8.  After a handler that saves the record, a load of the slot returns  *)
(* a record equal to the one in memory in all four fields, the badges in   *)
(* the same order.                                                         *)
(***************************************************************************)
C8_SaveThenLoad ==
    (appState = "running" /\ slot.present
        /\ lastCall.op \in {"toggleSound", "awardBadge"})
    => /\ ~loadProgress(slot).threw
       /\ Persisted.completedProcedures = userProgress.completedProcedures
       /\ Persisted.badges = userProgress.badges
       /\ Persisted.soundEnabled = userProgress.soundEnabled
       /\ Persisted.visitCount = userProgress.visitCount

\* a record with completed procedures, two badges, the sound off and a visit
\* count was saved by an award
C8_Witness ==
    /\ appState = "running"
    /\ lastCall.op = "awardBadge"
    /\ Len(userProgress.badges) = 2
    /\ userProgress.badges[2].id = lastCall.arg1
    /\ userProgress.badges[2].earnedAt = lastCall.arg2
    /\ userProgress.completedProcedures = <<"cleaning", "xray">>
    /\ userProgress.soundEnabled = FALSE
    /\ userProgress.visitCount = 3
    /\ Persisted = userProgress

(***************************************************************************)
(* C9.  Every toggle of the sound inverts soundEnabled, so that two        *)
(* toggles return it to its value, and after every toggle the persisted    *)
(* record's soundEnabled is the controller's soundEnabled.                 *)
(***************************************************************************)
C9_ToggleInvertsAndPersists ==
    [][lastCall'.op = "toggleSound"
       => /\ soundEnabled' = ~soundEnabled
          /\ slot'.present
          /\ ~loadProgress(slot').threw
          /\ loadProgress(slot').value.soundEnabled = soundEnabled']_vars

\* the sound is on after a toggle: it was toggled off and on again, and the
\* slot holds the final value
C9_Witness ==
    /\ lastCall.op = "toggleSound"
    /\ soundEnabled = TRUE
    /\ slot.present
    /\ Persisted.soundEnabled = TRUE

(***************************************************************************)
(* C10.  A controller constructed from the persisted slot has the state    *)
(* that was persisted, the sound preference included: its soundEnabled is  *)
(* the persisted record's soundEnabled.                                    *)
(***************************************************************************)
C10_ReloadRestoresSound ==
    (/\ lastCall.op = "constructor"
     /\ appState = "running"
     /\ slot.present
     /\ slot.text # <<>>)
    => /\ userProgress = Persisted
       /\ soundEnabled = Persisted.soundEnabled

(***************************************************************************)
(* C11.  calculateCompletionRate returns round(100 * |completedProcedures| *)
(* / 4), the total fixed at 4: four times the result is exactly 100 times  *)
(* the number completed, 0 completed gives 0, 2 gives 50 and 4 gives 100;  *)
(* the result lies in 0..100 for every record the app reaches, and it is   *)
(* the value the progress section counts up to.                            *)
(***************************************************************************)
C11_CompletionRate ==
    appState = "running" =>
        LET rate == calculateCompletionRate(userProgress)
            completed == Len(userProgress.completedProcedures)
        IN  /\ 4 * rate = 100 * completed
            /\ rate \in 0..100
            /\ completed = 0 => rate = 0
            /\ completed = 2 => rate = 50
            /\ completed = 4 => rate = 100
            /\ progressView.rendered => progressView.percent = rate

\* the progress section was entered with two of the four procedures completed
\* and displays 50
C11_Witness ==
    /\ appState = "running"
    /\ lastCall = Call("revealTimer", "progress", "none")
    /\ Len(userProgress.completedProcedures) = 2
    /\ progressView.rendered
    /\ progressView.percent = 50

(***************************************************************************)
(* C12.  Completing a procedure p, an advance from Open(p, do), is a       *)
(* persisted mutation of the record: afterwards p is a member of           *)
(* completedProcedures in memory and in the slot, exactly once.            *)
(***************************************************************************)
CountOf(strs, x) == Cardinality({i \in 1..Len(strs) : strs[i] = x})

C12_CompletionIsPersisted ==
    [][\A p \in ProcedureIds :
          (Open(p, "do") /\ lastCall'.op = "nextProcedureStep")
          => /\ CountOf(userProgress'.completedProcedures, p) = 1
             /\ slot'.present
             /\ ~loadProgress(slot').threw
             /\ CountOf(loadProgress(slot').value.completedProcedures, p) = 1]_vars

(***************************************************************************)
(* C13.  closeModal, from Open(p, step) for every p and every step, leads  *)
(* to Closed in one step and advances nothing (the content is left as it   *)
(* is); and startProcedure(q) for a known q leads to Open(q, show) with    *)
(* q's title whatever the modal held before, so that a modal closed at any *)
(* step opens again at show.                                               *)
(***************************************************************************)
C13_CloseFromAnyStep ==
    [][/\ lastCall'.op = "closeModal"
          => /\ Closed'
             /\ modalContent' = modalContent
             /\ modalTitle' = modalTitle
       /\ \A q \in ProcedureIds :
             lastCall' = Call("startProcedure", q, "none")
             => /\ Open(q, "show")'
                /\ modalContent'.next = "tell"
                /\ modalTitle' = ProcedureTitle(q)]_vars

\* the modal was closed while it was open at the do step of a procedure
C13_Witness ==
    /\ lastCall = Call("closeModal", "open", "none")
    /\ Closed
    /\ modalContent.procedure \in ProcedureIds
    /\ modalContent.step = "do"

(***************************************************************************)
(* C14.  awardBadge with an id the badge list already holds changes        *)
(* nothing: the badge list (the name, icon and earnedAt of the badge that  *)
(* is there included), the persisted record and the notifications are as   *)
(* before.  awardBadge with a new id appends one badge with that id and    *)
(* the time of the call as the last element and leaves the earlier badges  *)
(* and their order alone, writes the record, which then loads as the       *)
(* record in memory, and appends exactly one notification, of that badge.  *)
(***************************************************************************)
C14_AwardBadgeEffect ==
    [][lastCall'.op = "awardBadge" =>
         LET old == userProgress.badges
             new == userProgress'.badges
         IN  IF HasBadge(old, lastCall'.arg1)
             THEN /\ new = old
                  /\ slot' = slot
                  /\ notifications' = notifications
             ELSE /\ Len(new) = Len(old) + 1
                  /\ SubSeq(new, 1, Len(old)) = old
                  /\ new[Len(new)].id = lastCall'.arg1
                  /\ new[Len(new)].earnedAt = lastCall'.arg2
                  /\ slot'.present
                  /\ ~loadProgress(slot').threw
                  /\ loadProgress(slot').value = userProgress'
                  /\ Len(notifications') = Len(notifications) + 1
                  /\ SubSeq(notifications', 1, Len(notifications)) = notifications
                  /\ notifications'[Len(notifications')] =
                         NewNotification(new[Len(new)].name, new[Len(new)].icon)]_vars

\* a second award of an id, at a later time, after the first was announced:
\* the list holds the one badge of the first award
C14_Witness ==
    /\ lastCall.op = "awardBadge"
    /\ \E i \in 1..Len(userProgress.badges) :
          /\ userProgress.badges[i].id = lastCall.arg1
          /\ userProgress.badges[i].earnedAt # lastCall.arg2
    /\ Len(userProgress.badges) = 2
    /\ Len(notifications) = 1

(***************************************************************************)
(* C15.  navigateToSection(s) for a known section s, whatever the current  *)
(* section is, s itself included, makes s the current section, marks its   *)
(* button and sets one more reveal timer for s; and every reveal timer of  *)
(* a known s that fires renders s: s is marked active and its section      *)
(* animations run on the progress record as it is then.                    *)
(***************************************************************************)
C15_NavigateAlwaysRenders ==
    [][\A s \in Sections :
         /\ lastCall' = Call("navigateToSection", s, "none")
            => /\ currentSection' = s
               /\ activeButton' = s
               /\ revealTimers' = Append(revealTimers, s)
         /\ lastCall' = Call("revealTimer", s, "none")
            => /\ revealTimers # <<>>
               /\ Head(revealTimers) = s
               /\ revealTimers' = Tail(revealTimers)
               /\ s \in activeSections'
               /\ s = "progress" => progressView' = ProgressRendered(progressView, userProgress)]_vars

\* the progress section, rendered before and still current, was navigated
\* to twice more: both reveal timers are pending
C15_Witness ==
    /\ lastCall = Call("navigateToSection", "progress", "none")
    /\ currentSection = "progress"
    /\ progressView.rendered
    /\ revealTimers = <<"progress", "progress">>

(***************************************************************************)
(* C16.  Every reveal of the progress section, the first and every later   *)
(* one, writes what the progress record holds at that moment: the          *)
(* percentage the ring and the counter are animated to, the number of      *)
(* completed procedures, the number of badges, and one badge item per      *)
(* badge of the record, in the record's order, whatever the container      *)
(* held before.  A badge awarded since the last reveal is therefore shown, *)
(* and none is shown twice.                                                *)
(***************************************************************************)
C16_ProgressRecomputedOnEntry ==
    [][lastCall' = Call("revealTimer", "progress", "none") =>
         /\ progressView'.rendered
         /\ progressView'.percent = calculateCompletionRate(userProgress')
         /\ progressView'.completed = Len(userProgress'.completedProcedures)
         /\ progressView'.badgeCount = Len(userProgress'.badges)
         /\ Len(progressView'.badges) = Len(userProgress'.badges)
         /\ \A i \in 1..Len(userProgress'.badges) :
               /\ progressView'.badges[i].name = userProgress'.badges[i].name
               /\ progressView'.badges[i].icon = userProgress'.badges[i].icon]_vars

\* the progress section has just been revealed and shows two badges: the one
\* the stored record came with and one awarded since the page was loaded
C16_Witness ==
    /\ lastCall = Call("revealTimer", "progress", "none")
    /\ Len(notifications) = 1
    /\ Len(userProgress.badges) = 2
    /\ userProgress.badges[2].earnedAt = VisitDay
    /\ userProgress.badges[1].earnedAt # VisitDay
    /\ progressView.badgeCount = 2
    /\ Len(progressView.badges) = 2

(***************************************************************************)
(* C17.  Once every pending reveal timer has fired after navigations to    *)
(* known sections, exactly one section is marked active and it is          *)
(* currentSection, the target of the last navigation; the reveal timer of  *)
(* an earlier navigation does not bring its target back.                   *)
(***************************************************************************)
C17_LastNavigationWins ==
    (/\ appState = "running"
     /\ revealTimers = <<>>
     /\ currentSection \in Sections)
    => activeSections = {currentSection}

(***************************************************************************)
(* C18.  nextProcedureStep called while the modal is Closed leaves it      *)
(* Closed, awards no badge, shows no notification and leaves the progress  *)
(* record and the slot as they are.  What it writes into the hidden        *)
(* content is never displayed: every step that opens the modal writes the  *)
(* title and the content of what it opens, the first step of a procedure   *)
(* or the help text.                                                       *)
(***************************************************************************)
C18_AdvanceWhileClosed ==
    [][/\ (Closed /\ lastCall'.op = "nextProcedureStep")
          => /\ Closed'
             /\ modalTitle' = modalTitle
             /\ userProgress' = userProgress
             /\ slot' = slot
             /\ notifications' = notifications
       /\ (Closed /\ ~Closed')
          => \/ /\ lastCall'.op = "startProcedure"
                /\ modalTitle' = getProcedureData(lastCall'.arg1).title
                /\ modalContent' = getProcedureData(lastCall'.arg1).content
             \/ /\ lastCall'.op = "showHelpModal"
                /\ modalTitle' = HelpTitle
                /\ modalContent' = HelpContent]_vars

\* the do step of the X-ray was written into a modal that has never been opened
C18_Witness ==
    /\ lastCall = Call("nextProcedureStep", "xray", "do")
    /\ Closed
    /\ modalTitle = NoTitle
    /\ modalContent = getProcedureStepContent("xray", "do")

(***************************************************************************)
(* C19.  Opening the modal of a procedure, moving it to show, tell or do   *)
(* and closing it, by any of the ways to close it, are steps that add no   *)
(* badge, add nothing to completedProcedures, show no notification and do  *)
(* not write the slot; only the step taken from Open(p, do) is left out    *)
(* of this.                                                                *)
(***************************************************************************)
C19_NoAwardBeforePastDo ==
    [][(/\ lastCall'.op \in {"startProcedure", "nextProcedureStep", "closeModal"}
        /\ ~(lastCall'.op = "nextProcedureStep"
             /\ \E p \in ProcedureIds : Open(p, "do")))
       => /\ userProgress'.badges = userProgress.badges
          /\ userProgress'.completedProcedures = userProgress.completedProcedures
          /\ userProgress' = userProgress
          /\ slot' = slot
          /\ notifications' = notifications]_vars

\* first visit: a procedure was opened, taken to its do step and closed
\* there; the record is the default one and nothing has been stored
C19_Witness ==
    /\ lastCall = Call("closeModal", "open", "none")
    /\ Closed
    /\ modalContent.procedure \in ProcedureIds
    /\ modalTitle = ProcedureTitle(modalContent.procedure)
    /\ modalContent.step = "do"
    /\ userProgress = DefaultProgress
    /\ slot = Absent

(***************************************************************************)
(* C20.  The modal and the navigation do not touch each other, in any      *)
(* order of their steps: opening a procedure, advancing a step and closing *)
(* the modal leave currentSection, the marked button, the active sections, *)
(* the pending reveal timers and the progress view as they are; a          *)
(* navigation and the reveal timer it sets leave the modal (shown or not,  *)
(* title, content), the progress record and the slot as they are.          *)
(***************************************************************************)
C20_ModalAndNavigationIndependent ==
    [][/\ lastCall'.op \in {"startProcedure", "nextProcedureStep", "closeModal"}
          => /\ currentSection' = currentSection
             /\ activeButton' = activeButton
             /\ activeSections' = activeSections
             /\ revealTimers' = revealTimers
             /\ progressView' = progressView
       /\ lastCall'.op \in {"navigateToSection", "revealTimer"}
          => /\ modalShown' = modalShown
             /\ modalTitle' = modalTitle
             /\ modalContent' = modalContent
             /\ userProgress' = userProgress
             /\ slot' = slot]_vars

\* a navigation to the tips while the modal shows the tell step of a
\* procedure, the reveal timer of an earlier navigation still pending
C20_Witness ==
    /\ lastCall = Call("navigateToSection", "tips", "none")
    /\ currentSection = "tips"
    /\ Len(revealTimers) = 2
    /\ \E p \in ProcedureIds : Open(p, "tell")

(***************************************************************************)
(* C22.  No tone is started while soundEnabled is false.  The click and    *)
(* the hover look at soundEnabled when the handler runs, and each note of  *)
(* a welcome melody looks at it when its timer fires: a melody set while   *)
(* the sound was on is silent from the moment the sound is toggled off.    *)
(***************************************************************************)
C22_NoToneWhileMuted ==
    /\ emitted # <<>> => soundEnabled
    /\ (lastCall.op = "welcomeTimer" /\ ~soundEnabled) => emitted = <<>>
    /\ (lastCall.op \in {"hoverCard", "closeModal", "showHelpModal"} /\ ~soundEnabled)
       => emitted = <<>>

\* the timer of the first note of a melody has fired with the sound off, and
\* started nothing; the timers of its other notes are still pending
C22_Witness ==
    /\ lastCall.op = "welcomeTimer"
    /\ ~soundEnabled
    /\ emitted = <<>>
    /\ toneTimers = <<2>>

(***************************************************************************)
(* C21.  A notification enters the page not yet shown, with an award of a  *)
(* new badge; from then on only its own timers change it: the first shows  *)
(* it, the second hides it, the third removes it, one step each and in     *)
(* this order, and the other notifications pending at that moment are left *)
(* as they are.  The toggle, the navigation and the modal leave every      *)
(* notification alone and stay available while notifications are pending;  *)
(* a timer of a notification touches nothing else.  Unless the page is     *)
(* left before, the timers fire, so that whenever notifications are        *)
(* pending the page gets to have none.                                     *)
(***************************************************************************)
NotificationStep(old, new) ==
    \E i \in 1..Len(old) :
        \/ /\ old[i].phase = "appended"
           /\ new = [old EXCEPT ![i].phase = "shown"]
        \/ /\ old[i].phase = "shown"
           /\ new = [old EXCEPT ![i].phase = "hiding"]
        \/ /\ old[i].phase = "hiding"
           /\ new = SubSeq(old, 1, i - 1) \o SubSeq(old, i + 1, Len(old))

C21_NotificationLifecycle ==
    /\ [][/\ lastCall'.op = "awardBadge"
             => \/ notifications' = notifications
                \/ /\ Len(notifications') = Len(notifications) + 1
                   /\ SubSeq(notifications', 1, Len(notifications)) = notifications
                   /\ notifications'[Len(notifications')].phase = "appended"
          /\ lastCall'.op = "notificationTimer"
             => /\ NotificationStep(notifications, notifications')
                /\ UNCHANGED <<slot, soundEnabled, userProgress, currentSection,
                               activeButton, activeSections, revealTimers,
                               progressView, modalShown, modalTitle, modalContent>>
          /\ lastCall'.op \in {"toggleSound", "navigateToSection", "revealTimer",
                               "showHelpModal", "closeModal"}
             => notifications' = notifications]_vars
    /\ []((appState = "running" /\ notifications # <<>>)
          => /\ ENABLED toggleSound
             /\ ENABLED showHelpModal
             /\ ENABLED closeModal
             /\ Len(revealTimers) < MaxPendingReveals => ENABLED navigateToSection("tips"))
    /\ (notifications # <<>>) ~> (notifications = <<>>)

\* two badges were awarded since the page was loaded, both with the sound on
\* (their melodies and that of the page load were set); the sound was toggled
\* off, the tips opened and the help shown meanwhile; the timers of the first
\* notification have removed it and the second is still on the page
C21_Witness ==
    /\ lastCall.op = "notificationTimer"
    /\ Len(userProgress.badges) = 2
    /\ Len(toneTimers) = 3
    /\ Len(notifications) = 1
    /\ notifications[1].name = userProgress.badges[2].name
    /\ ~soundEnabled
    /\ currentSection = "tips"
    /\ modalShown

====
